---- MODULE Spec2Model ----
(***************************************************************************)
(* Client-side dwell tracking and visit recording of the grid game          *)
(* (gridgame/static/js/app.js, gps.js, grid.js, api.js) together with the   *)
(* browser facilities it uses (timers, geolocation watches, fetch) and the  *)
(* backend contract of the README.                                          *)
(*                                                                          *)
(* Time advances in steps of one second.  A Date is held as its age, the     *)
(* number of seconds elapsed since it was taken; the age of a pending timer  *)
(* is exact until the timer is due, and ages beyond MaxAge are not told      *)
(* apart after that.  state.cellEnteredAt, which no handler reads, is held   *)
(* as the age it has when it is stored.  The lobby and the setup form        *)
(* reached from it are held as one screen.  Of the map only the annotation   *)
(* of the grid by GameMap.loadGrid is held; the rendering and               *)
(* authentication hold no state read by the handlers modelled here and are   *)
(* left out.  The screen wake lock is held with the requests and sentinels   *)
(* of the browser; it is switched off in the settings except in the          *)
(* specification of the wake lock, which switches it on.                     *)
(*                                                                          *)
(* The board editor (gridgame/static/js/editor) is a page of its own; its    *)
(* state stays as constructed while the game is played and is moved only by  *)
(* the specification of the editor.                                          *)
(***************************************************************************)
EXTENDS Integers, Sequences, FiniteSets, TLC

VARIABLES
    \* App.state
    gameId, grid, visitedCells, currentCellId, cellEnteredAt, dwellTimer,
    countdownInterval, minDwellS, totalCells,
    \* GPS.watchId
    watchId,
    \* settings.wakeLockEnabled, App._wakeLock
    wakeLockEnabled, _wakeLock,
    \* DOM: visible screen, pause modal, finish button, HUD texts
    screen, pauseModal, pauseFinishBtnDisabled, chooseLocationBtnDisabled,
    cellStatus, visitedCount, scorePct,
    \* browser: pending timeouts, active intervals, geolocation watches,
    \* wake lock requests not yet settled, wake lock sentinels not released
    timers, intervals, watches, wakeRequests, sentinels,
    \* network: requests travelling to the backend, responses travelling back
    gameResps, visitReqs, visitResps, finishResps,
    \* backend: games, visit counts per (game, cell), finished games
    srvCreated, srvVisits, srvFinished,
    \* board editor: EditorApp.currentBoardId, the section shown, the cells
    \* loaded into EditorMap, the selection, the cell counts shown
    currentBoardId, detailShown, _geojson, _selectedCellIds, cellStats,
    \* board editor: responses travelling back, cells of the boards on the
    \* backend
    editorResps, srvBoards,
    \* number of requests sent so far
    nRequests

appVars == <<gameId, grid, visitedCells, currentCellId, cellEnteredAt,
             dwellTimer, countdownInterval, minDwellS, totalCells>>
uiVars == <<screen, pauseModal, pauseFinishBtnDisabled,
            chooseLocationBtnDisabled>>
hudVars == <<cellStatus, visitedCount, scorePct>>
gpsVars == <<watches, watchId>>
wakeVars == <<wakeLockEnabled, _wakeLock, wakeRequests, sentinels>>
editorVars == <<currentBoardId, detailShown, _geojson, _selectedCellIds,
                cellStats, editorResps, srvBoards>>
browserVars == <<timers, intervals, gpsVars>>
startNetVars == <<gameResps>>
visitNetVars == <<visitReqs, visitResps>>
finishNetVars == <<finishResps>>
serverVars == <<srvCreated, srvVisits, srvFinished>>
histVars == <<nRequests>>
vars == <<appVars, uiVars, hudVars, browserVars, wakeVars, editorVars,
          startNetVars, visitNetVars, finishNetVars, serverVars, histVars>>

----------------------------------------------------------------------------
\* Bounds of the model

MaxAge == 2
MaxRequests == 3

\* requests the board editor sends on the user's behalf
MaxEditorRequests == 3

----------------------------------------------------------------------------
\* Values

Null == "null"

\* null in a place that holds a timer, interval or watch handle (handles are
\* positive integers, tested with `if (handle)`)
NoHandle == 0

\* null in a place that holds a Date
NoTime == -1

\* new Date(): a Date of age 0
NewDate == 0

\* a Date one second later
Aged(d) == IF d = NoTime THEN NoTime ELSE IF d < MaxAge THEN d + 1 ELSE d

Games == {"g1", "g2"}

CellIds == {"A", "B"}

\* Coordinates a position sample can carry: two inside cell A, one inside
\* cell B, one outside every cell.
Points == {"a1", "a2", "b1", "out"}

\* A grid is a FeatureCollection: a sequence of features, each with a cell_id
\* and a polygon (the set of points it contains). The game "g4" is played
\* on a grid of four cells.
FeaturesOf(g) ==
    IF g = "g1"
    THEN << [cell_id |-> "A", polygon |-> {"a1", "a2"}],
            [cell_id |-> "B", polygon |-> {"b1"}] >>
    ELSE IF g = "g4"
    THEN << [cell_id |-> "A", polygon |-> {"a1", "a2"}],
            [cell_id |-> "B", polygon |-> {"b1"}],
            [cell_id |-> "C", polygon |-> {"c1"}],
            [cell_id |-> "D", polygon |-> {"d1"}] >>
    ELSE << [cell_id |-> "B", polygon |-> {"b1"}] >>

GridOf(g) == [isNull |-> FALSE, features |-> FeaturesOf(g)]

\* App.state.grid = null
NullGrid == [isNull |-> TRUE, features |-> << >>]

\* min_dwell_s of the game
MinDwellOf(g) == IF g = "g1" THEN 2 ELSE IF g = "g4" THEN 10 ELSE 1

TotalCellsOf(g) == Len(FeaturesOf(g))

CellsOf(g) == {FeaturesOf(g)[i].cell_id : i \in 1..Len(FeaturesOf(g))}

\* App.state.minDwellS before any game is started and after onNewGame
DefaultMinDwellS == 10

----------------------------------------------------------------------------
\* Pure functions

\* turf.booleanPointInPolygon(pt, feature)
booleanPointInPolygon(pt, feature) == pt \in feature.polygon

\* Grid.detectCell: cell_id of the first feature containing the point, or null
RECURSIVE detectCellFrom(_, _, _)
detectCellFrom(pt, geojson, i) ==
    IF i > Len(geojson.features) THEN Null
    ELSE IF booleanPointInPolygon(pt, geojson.features[i])
         THEN geojson.features[i].cell_id
    ELSE detectCellFrom(pt, geojson, i + 1)

\* variant: the scan does not stop at the first match
detectCell_LastMatch(pt, geojson) ==
    LET hits == {i \in 1..Len(geojson.features) :
                    booleanPointInPolygon(pt, geojson.features[i])}
    IN IF hits = {} THEN Null
       ELSE geojson.features[CHOOSE i \in hits : \A j \in hits : j <= i].cell_id

detectCell(pt, geojson) == detectCellFrom(pt, geojson, 1)

\* A percentage with one decimal, held in tenths of a percent:
\* (v / total * 100).toFixed(1), '0.0' when total is 0
Pct(v, total) ==
    IF total = 0 THEN 0 ELSE (2 * 1000 * v + total) \div (2 * total)

\* Object.keys(visitedCells).length
NumVisited(vc) == Cardinality(DOMAIN vc)

\* smallest handle the browser has not handed out among the live ones
FreshId(used) == CHOOSE i \in 1..(Cardinality(used) + 1) :
                    /\ i \notin used
                    /\ \A j \in 1..(i - 1) : j \in used

TimerIds == {t.id : t \in timers}
IntervalIds == {t.id : t \in intervals}

\* the empty object {}
EmptyMap == [c \in {} |-> 0]

\* textContent of the cell status line
Status(kind, cell, remaining) ==
    [kind |-> kind, cell |-> cell, remaining |-> remaining]

----------------------------------------------------------------------------
\* Board editor: values (editor/editor-app.js, editor-map.js, editor-api.js)

\* Boards the editor lists.  A cell_id is an identifier of the grid, so
\* boards drawn over the same ground share cell ids.
Boards == {"board1", "board2"}

\* cell ids of the features GET /editor/api/boards/{id}/cells/ returns
BoardCells(b) == IF b = "board1" THEN {"A", "B"} ELSE {"B"}

\* EditorMap._geojson = null.  A loaded collection is held as the
\* properties.is_enabled of its features by cell_id, with the board it was
\* fetched for.
NoGeojson == [board |-> Null, is_enabled |-> EmptyMap]

\* enabled_cells / enabled_count of a board
EnabledCount(cells) == Cardinality({c \in DOMAIN cells : cells[c]})

\* the editor as constructed (EditorApp and EditorMap literals), the board
\* list shown, every cell of every board generated and enabled
EditorStart ==
    /\ currentBoardId = Null
    /\ detailShown = FALSE
    /\ _geojson = NoGeojson
    /\ _selectedCellIds = {}
    /\ cellStats = [enabled |-> 0, total |-> 0]
    /\ editorResps = {}
    /\ srvBoards = [b \in Boards |-> [c \in BoardCells(b) |-> TRUE]]

----------------------------------------------------------------------------
\* Initial state: the application as constructed (App.state literal), the
\* lobby shown, one game already known to the backend.

Init ==
    /\ gameId = Null
    /\ grid = NullGrid
    /\ visitedCells = EmptyMap
    /\ currentCellId = Null
    /\ cellEnteredAt = NoTime
    /\ dwellTimer = NoHandle
    /\ countdownInterval = NoHandle
    /\ minDwellS = DefaultMinDwellS
    /\ totalCells = 0
    /\ watchId = NoHandle
    /\ screen = "lobby-screen"
    /\ pauseModal = FALSE
    /\ pauseFinishBtnDisabled = FALSE
    /\ chooseLocationBtnDisabled = FALSE
    /\ cellStatus = Status("", Null, 0)
    /\ visitedCount = 0
    /\ scorePct = 0
    /\ timers = {}
    /\ intervals = {}
    /\ watches = {}
    /\ wakeLockEnabled = FALSE
    /\ _wakeLock = NoHandle
    /\ wakeRequests = 0
    /\ sentinels = {}
    /\ EditorStart
    /\ gameResps = {}
    /\ visitReqs = {}
    /\ visitResps = {}
    /\ finishResps = {}
    /\ srvCreated = {"g1"}
    /\ srvVisits = [g \in Games |-> [c \in CellsOf(g) |->
                        [visit_count |-> 0, dwell_s |-> 0]]]
    /\ srvFinished = {}
    /\ nRequests = 0

----------------------------------------------------------------------------
\* Browser facilities

\* variant: the previous timeout is left pending
clearTimeout_Noop(ts, handle) == ts

\* clearTimeout(handle), guarded by `if (handle)` in every caller
clearTimeout(ts, handle) ==
    IF handle # NoHandle THEN {t \in ts : t.id # handle} ELSE ts

\* clearInterval(handle), guarded by `if (handle)` in every caller
clearInterval(is, handle) ==
    IF handle # NoHandle THEN {i \in is : i.id # handle} ELSE is

\* GPS.start: navigator.geolocation.watchPosition registers a new watch and
\* GPS.watchId is overwritten with its id
GPSstart ==
    LET id == FreshId(watches) IN
    /\ watches' = watches \cup {id}
    /\ watchId' = id

\* GPS.stop: clears the watch GPS.watchId names, if any
GPSstop ==
    /\ watches' = IF watchId # NoHandle THEN watches \ {watchId} ELSE watches
    /\ watchId' = NoHandle

\* The wake lock as the places the handlers below read and write: the
\* setting, App._wakeLock, the requests navigator.wakeLock.request has not
\* settled yet, and the sentinels granted and not released.
WakeLock ==
    [wakeLockEnabled |-> wakeLockEnabled, _wakeLock |-> _wakeLock,
     requests |-> wakeRequests, sentinels |-> sentinels]

\* App._acquireWakeLock up to its await: a request is made unless the
\* setting is off or a sentinel is held in _wakeLock
_acquireWakeLock(w) ==
    IF ~w.wakeLockEnabled THEN w
    ELSE IF w._wakeLock # NoHandle THEN w
    ELSE [w EXCEPT !.requests = @ + 1]

\* App._releaseWakeLock: the sentinel held in _wakeLock is released and
\* _wakeLock becomes null (release() settles at once)
_releaseWakeLock(w) ==
    IF w._wakeLock = NoHandle THEN w
    ELSE [w EXCEPT !.sentinels = @ \ {w._wakeLock}, !._wakeLock = NoHandle]

\* the wake lock part of App.applySettings, with state.gameId = gid
applySettings(w, gid) ==
    IF gid = Null THEN w
    ELSE IF w.wakeLockEnabled THEN _acquireWakeLock(w)
    ELSE _releaseWakeLock(w)

\* the handler leaves the wake lock as w
WakeLockBecomes(w) ==
    /\ _wakeLock' = w._wakeLock
    /\ wakeRequests' = w.requests
    /\ sentinels' = w.sentinels
    /\ wakeLockEnabled' = w.wakeLockEnabled

\* variant: the features are put into the opposite order
loadGrid_Reorders(geojson) ==
    [geojson EXCEPT !.features =
        [i \in 1..Len(@) |->
            [id |-> i - 1, _idx |-> i - 1] @@ @[Len(@) + 1 - i]]]

\* GameMap.loadGrid, as far as it writes to the grid: every feature gets
\* its index as id and as properties._idx
loadGrid(geojson) ==
    [geojson EXCEPT !.features =
        [i \in 1..Len(@) |-> [id |-> i - 1, _idx |-> i - 1] @@ @[i]]]

\* obj[key] = value on a JS object
MapSet(m, k, v) == [x \in (DOMAIN m) \cup {k} |-> IF x = k THEN v ELSE m[x]]

----------------------------------------------------------------------------
\* App.onPositionUpdate (app.js 689-736)

\* setTimeout(() => this.onDwellComplete(newCellId, enteredAt, lat, lon),
\*            this.state.minDwellS * 1000)
\* variant: the new timer is credited with the time of the timer it replaces
NewTimer_PartialCredit(ts, newCellId, pt) ==
    [id |-> FreshId({t.id : t \in ts}), cellId |-> newCellId,
     enteredAt |-> IF timers = {} THEN NewDate
                   ELSE (CHOOSE u \in timers : TRUE).enteredAt,
     lat_lon |-> pt, delay |-> minDwellS,
     interrupted |-> FALSE, moved |-> FALSE, preResume |-> FALSE]

\* The fields interrupted, moved and preResume are history: whether a sample
\* located outside cellId has been received, whether the most recent sample
\* was taken at a point other than lat_lon, and whether resume-from-pause has
\* been pressed, since the timer was armed.
NewTimer(ts, newCellId, pt) ==
    [id |-> FreshId({t.id : t \in ts}), cellId |-> newCellId,
     enteredAt |-> NewDate, lat_lon |-> pt, delay |-> minDwellS,
     interrupted |-> FALSE, moved |-> FALSE, preResume |-> FALSE]

\* setInterval(..., 1000) with the closure variable `remaining`
NewInterval(is) ==
    [id |-> FreshId({i.id : i \in is}), remaining |-> minDwellS]

\* history: the pending timers see a sample taken at pt, located in newCellId
Observe(ts, newCellId, pt) ==
    {[t EXCEPT !.interrupted = @ \/ (t.cellId # newCellId),
               !.moved = (pt # t.lat_lon)] : t \in ts}

\* variant: the early return is missing
SameCell_Never(newCellId) == FALSE

\* if (newCellId === this.state.currentCellId) return;
SameCell(newCellId) == newCellId = currentCellId

onPositionUpdate(pt) ==
    IF grid.isNull
    THEN \* Grid.detectCell reads geojson.features of null: the handler throws
         UNCHANGED <<appVars, hudVars, timers, intervals>>
    ELSE
    LET newCellId == detectCell(pt, grid) IN
    IF SameCell(newCellId)
    THEN /\ UNCHANGED <<appVars, hudVars, intervals>>
         /\ timers' = Observe(timers, newCellId, pt)
    ELSE
    LET ts == Observe(clearTimeout(timers, dwellTimer), newCellId, pt)
        is == clearInterval(intervals, countdownInterval)
        t == NewTimer(ts, newCellId, pt)
        i == NewInterval(is)
    IN
    /\ currentCellId' = newCellId
    /\ cellEnteredAt' = NewDate
    /\ IF newCellId # Null
       THEN /\ IF newCellId \in DOMAIN visitedCells
               THEN /\ cellStatus' = Status("already visited", newCellId, 0)
                    /\ countdownInterval' = NoHandle
                    /\ intervals' = is
               ELSE /\ cellStatus' = Status("In cell", Null, minDwellS)
                    /\ countdownInterval' = i.id
                    /\ intervals' = is \cup {i}
            /\ dwellTimer' = t.id
            /\ timers' = ts \cup {t}
       ELSE /\ cellStatus' = Status("Outside grid area", Null, 0)
            /\ countdownInterval' = NoHandle
            /\ intervals' = is
            /\ dwellTimer' = NoHandle
            /\ timers' = ts
    /\ UNCHANGED <<gameId, grid, visitedCells, minDwellS, totalCells,
                   visitedCount, scorePct>>

\* a position sample delivered by an active geolocation watch: the success
\* callback of watchPosition in GPS.start
PositionSampleAt(pt) ==
    /\ watches # {}
    /\ UNCHANGED <<histVars, uiVars, startNetVars, visitNetVars,
                   finishNetVars, gpsVars, wakeVars, serverVars, editorVars>>
    /\ onPositionUpdate(pt)

PositionSample == \E pt \in Points : PositionSampleAt(pt)

\* an active geolocation watch reports an error: the error callback of
\* watchPosition in GPS.start, with the onError of _startGame and
\* onResumeFromPause. The watch stays registered.
PositionError ==
    /\ watches # {}
    /\ cellStatus' = Status("GPS error", Null, 0)
    /\ UNCHANGED <<appVars, uiVars, visitedCount, scorePct, browserVars,
                   wakeVars, editorVars, startNetVars, visitNetVars,
                   finishNetVars, serverVars, histVars>>

----------------------------------------------------------------------------
\* App.onDwellComplete (app.js 745-768) and API.recordVisit (api.js 136-147)

\* variant: the commit carries no entry timestamp of its own but the
\* moment of sending
VisitRequest_EntryIsNow(t) ==
    [seq |-> FreshId({q.seq : q \in visitReqs} \cup {r.seq : r \in visitResps}),
     game |-> gameId, cell_id |-> t.cellId,
     entered_at |-> 0 - NewDate, exited_at |-> 0 - NewDate,
     lat_lon |-> t.lat_lon, moved |-> t.moved]

\* body of the POST, with the game id of the URL; the two timestamps are
\* held relative to the moment of sending. The field moved is history:
\* whether the most recent sample before sending was taken at a point other
\* than lat_lon.
VisitRequest(t) ==
    [seq |-> FreshId({q.seq : q \in visitReqs} \cup {r.seq : r \in visitResps}),
     game |-> gameId, cell_id |-> t.cellId,
     entered_at |-> 0 - t.enteredAt, exited_at |-> 0 - NewDate,
     lat_lon |-> t.lat_lon, moved |-> t.moved]

\* variant: the commit is not submitted by the timer callback
onDwellComplete_Defers(t) ==
    /\ dwellTimer' = NoHandle
    /\ nRequests' = nRequests + 1
    /\ visitReqs' = visitReqs
    /\ UNCHANGED <<gameId, grid, visitedCells, currentCellId, cellEnteredAt,
                   countdownInterval, minDwellS, totalCells, hudVars,
                   visitResps>>

\* variant: no commit is sent for a cell that is already visited
onDwellComplete_SkipsVisited(t) ==
    /\ dwellTimer' = NoHandle
    /\ nRequests' = nRequests + 1
    /\ visitReqs' = IF t.cellId \in DOMAIN visitedCells THEN visitReqs
                    ELSE visitReqs \cup {VisitRequest(t)}
    /\ UNCHANGED <<gameId, grid, visitedCells, currentCellId, cellEnteredAt,
                   countdownInterval, minDwellS, totalCells, hudVars,
                   visitResps>>

\* first half of onDwellComplete, up to the await: the timer callback runs
onDwellComplete(t) ==
    /\ dwellTimer' = NoHandle
    /\ nRequests' = nRequests + 1
    /\ visitReqs' = visitReqs \cup {VisitRequest(t)}
    /\ UNCHANGED <<gameId, grid, visitedCells, currentCellId, cellEnteredAt,
                   countdownInterval, minDwellS, totalCells, hudVars,
                   visitResps>>

\* a pending timeout whose delay has elapsed fires
DwellTimerFires ==
    \E t \in timers :
        /\ t.enteredAt >= t.delay
        /\ nRequests < MaxRequests
        /\ timers' = timers \ {t}
        /\ onDwellComplete(t)
        /\ UNCHANGED <<uiVars, intervals, gpsVars, wakeVars, editorVars,
                       startNetVars, finishNetVars, serverVars>>

\* a non-2xx response; a response is held with the game of its URL and the
\* cellId of the onDwellComplete call awaiting it
ErrorResponse(req) ==
    [seq |-> req.seq, game |-> req.game, cellId |-> req.cell_id, ok |-> FALSE,
     visit_count |-> 0, visited_count |-> 0, score_pct |-> 0]

\* variant: a response for a cell that is no longer tracked is dropped
VisitSucceeded_OnlyIfTracked(r) ==
    IF r.cellId = currentCellId
    THEN /\ visitedCells' = MapSet(visitedCells, r.cellId,
                                   [visitCount |-> r.visit_count,
                                    dwellS |-> minDwellS])
         /\ visitedCount' = r.visited_count
         /\ scorePct' = r.score_pct
         /\ cellStatus' = Status("Visited", r.cellId, 0)
    ELSE UNCHANGED <<visitedCells, visitedCount, scorePct, cellStatus>>

\* variant: the visit count is incremented locally
VisitSucceeded_LocalIncrement(r) ==
    LET cellId == r.cellId IN
    /\ visitedCells' = MapSet(visitedCells, cellId,
            [visitCount |-> IF cellId \in DOMAIN visitedCells
                            THEN visitedCells[cellId].visitCount + 1 ELSE 1,
             dwellS |-> minDwellS])
    /\ visitedCount' = r.visited_count
    /\ scorePct' = r.score_pct
    /\ cellStatus' = Status("Visited", cellId, 0)

\* variant: the score is recomputed from the local visited cells
VisitSucceeded_LocalScore(r) ==
    LET vc == MapSet(visitedCells, r.cellId,
                     [visitCount |-> r.visit_count, dwellS |-> minDwellS])
    IN
    /\ visitedCells' = vc
    /\ visitedCount' = NumVisited(vc)
    /\ scorePct' = Pct(NumVisited(vc), totalCells)
    /\ cellStatus' = Status("Visited", r.cellId, 0)

\* second half of onDwellComplete, after the await resolved: the try body
VisitSucceeded(r) ==
    LET cellId == r.cellId IN
    /\ visitedCells' = MapSet(visitedCells, cellId,
                              [visitCount |-> r.visit_count,
                               dwellS |-> minDwellS])
    /\ visitedCount' = r.visited_count
    /\ scorePct' = r.score_pct
    /\ cellStatus' = Status("Visited", cellId, 0)

\* variant: the cell is marked visited before the outcome is known
VisitFailed_MarksVisited(r) ==
    /\ cellStatus' = Status("Visit error", Null, 0)
    /\ visitedCells' = MapSet(visitedCells, r.cellId,
                              [visitCount |-> 1, dwellS |-> minDwellS])
    /\ UNCHANGED <<visitedCount, scorePct>>

\* variant: a failed commit removes the record of its cell
VisitFailed_ForgetsCell(r) ==
    /\ cellStatus' = Status("Visit error", Null, 0)
    /\ visitedCells' = [c \in DOMAIN visitedCells \ {r.cellId} |->
                            visitedCells[c]]
    /\ UNCHANGED <<visitedCount, scorePct>>

\* second half of onDwellComplete, after the await rejected: the catch body
VisitFailed(r) ==
    /\ cellStatus' = Status("Visit error", Null, 0)
    /\ UNCHANGED <<visitedCells, visitedCount, scorePct>>

\* the response of a visit commit reaches the client: await resolves for a
\* 2xx response, and rejects for a non-2xx response or a response that is
\* lost on the way
VisitResponseOf(r, arrives) ==
    /\ visitResps' = visitResps \ {r}
    /\ IF arrives /\ r.ok THEN VisitSucceeded(r) ELSE VisitFailed(r)
    /\ UNCHANGED <<gameId, grid, currentCellId, cellEnteredAt, dwellTimer,
                   countdownInterval, minDwellS, totalCells, uiVars,
                   browserVars, wakeVars, editorVars, startNetVars, visitReqs,
                   finishNetVars, serverVars, histVars>>

VisitResponse ==
    \E r \in visitResps, arrives \in BOOLEAN : VisitResponseOf(r, arrives)

\* variant: a request that did not reach the backend is sent again
VisitRequestLost_Retries ==
    \E req \in visitReqs :
        /\ visitReqs' = (visitReqs \ {req}) \cup
                {[req EXCEPT !.seq = FreshId({q.seq : q \in visitReqs}
                                        \cup {r.seq : r \in visitResps})]}
        /\ VisitFailed(ErrorResponse(req))
        /\ UNCHANGED <<gameId, grid, currentCellId, cellEnteredAt, dwellTimer,
                       countdownInterval, minDwellS, totalCells, uiVars,
                       browserVars, wakeVars, editorVars, startNetVars,
                       visitResps, finishNetVars, serverVars, histVars>>

\* the request never reaches the backend: fetch rejects
VisitRequestLost ==
    \E req \in visitReqs :
        /\ visitReqs' = visitReqs \ {req}
        /\ VisitFailed(ErrorResponse(req))
        /\ UNCHANGED <<gameId, grid, currentCellId, cellEnteredAt, dwellTimer,
                       countdownInterval, minDwellS, totalCells, uiVars,
                       browserVars, wakeVars, editorVars, startNetVars,
                       visitResps, finishNetVars, serverVars, histVars>>

----------------------------------------------------------------------------
\* Backend: POST /api/games/{game_id}/visits/ (README "Record Cell Visit")

\* variant: every visit is counted, not every visited cell
ServerVisitedCount_CountsVisits(sv, g) ==
    Cardinality(UNION {{<<c, k>> : k \in 1..sv[g][c].visit_count} :
                            c \in DOMAIN sv[g]})

\* visited_count: the number of cells of the game with a visit record
ServerVisitedCount(sv, g) ==
    Cardinality({c \in DOMAIN sv[g] : sv[g][c].visit_count > 0})

\* variant: the dwell time is not validated
VisitValid_AnyDwell(req) ==
    /\ req.game \in srvCreated
    /\ req.cell_id \in CellsOf(req.game)

\* "Backend validates": dwell_s >= game.min_dwell_s, cell_id in the play area
VisitValid(req) ==
    /\ req.game \in srvCreated
    /\ req.cell_id \in CellsOf(req.game)
    /\ req.exited_at - req.entered_at >= MinDwellOf(req.game)

\* variant: a repeated visit overwrites the record instead of counting it
ServerUpsert_Overwrites(sv, req) ==
    [sv EXCEPT ![req.game][req.cell_id] =
        [visit_count |-> 1,
         dwell_s |-> req.exited_at - req.entered_at]]

\* update_or_create on (game, cell_id)
ServerUpsert(sv, req) ==
    [sv EXCEPT ![req.game][req.cell_id] =
        [visit_count |-> @.visit_count + 1,
         dwell_s |-> req.exited_at - req.entered_at]]

ServerRecordVisit ==
    \E req \in visitReqs :
        LET sv == ServerUpsert(srvVisits, req) IN
        /\ visitReqs' = visitReqs \ {req}
        /\ IF VisitValid(req)
           THEN /\ srvVisits' = sv
                /\ visitResps' = visitResps \cup
                     {[seq |-> req.seq, game |-> req.game,
                       cellId |-> req.cell_id, ok |-> TRUE,
                       visit_count |-> sv[req.game][req.cell_id].visit_count,
                       visited_count |-> ServerVisitedCount(sv, req.game),
                       score_pct |-> Pct(ServerVisitedCount(sv, req.game),
                                         TotalCellsOf(req.game))]}
           ELSE /\ srvVisits' = srvVisits
                /\ visitResps' = visitResps \cup {ErrorResponse(req)}
        /\ UNCHANGED <<appVars, uiVars, hudVars, browserVars, wakeVars,
                       editorVars, startNetVars, finishNetVars, srvCreated,
                       srvFinished, histVars>>

----------------------------------------------------------------------------
\* The clock and the countdown interval (app.js 715-725)

\* one run of the setInterval callback of interval id, on the state
\* st = [intervals, countdownInterval, cellStatus]
CountdownTick(st, id) ==
    IF id \notin {i.id : i \in st.intervals} THEN st
    ELSE
    LET i == CHOOSE x \in st.intervals : x.id = id
        \* remaining--, not told apart below 0
        remaining == IF i.remaining > 0 THEN i.remaining - 1 ELSE 0
        ticked == (st.intervals \ {i}) \cup {[i EXCEPT !.remaining = remaining]}
    IN
    IF remaining > 0
    THEN [st EXCEPT !.intervals = ticked,
                    !.cellStatus = Status("In cell", Null, remaining)]
    ELSE [st EXCEPT !.intervals = clearInterval(ticked, st.countdownInterval),
                    !.countdownInterval = NoHandle]

RECURSIVE RunIntervals(_, _)
RunIntervals(st, ids) ==
    IF ids = {} THEN st
    ELSE LET id == CHOOSE x \in ids : \A y \in ids : x <= y
         IN RunIntervals(CountdownTick(st, id), ids \ {id})

\* one second passes; every active interval runs its callback. A timeout
\* that has fallen due runs before the next second begins, unless the
\* request budget keeps it from running.
Tick ==
    /\ \A t \in timers : t.enteredAt < t.delay \/ nRequests >= MaxRequests
    /\ timers' = {[t EXCEPT !.enteredAt =
                        IF @ < t.delay THEN @ + 1 ELSE Aged(@)] : t \in timers}
    /\ LET st == RunIntervals([intervals |-> intervals,
                               countdownInterval |-> countdownInterval,
                               cellStatus |-> cellStatus], IntervalIds)
       IN /\ intervals' = st.intervals
          /\ countdownInterval' = st.countdownInterval
          /\ cellStatus' = st.cellStatus
    /\ UNCHANGED <<gameId, grid, visitedCells, currentCellId, cellEnteredAt,
                   dwellTimer, minDwellS, totalCells, uiVars, visitedCount,
                   scorePct, gpsVars, wakeVars, editorVars, startNetVars,
                   visitNetVars, finishNetVars, serverVars, histVars>>

----------------------------------------------------------------------------
\* Starting a game: App.onResumeGame (app.js 510-520), the board branch of
\* App.onChooseLocation (526-553), App._startGame (607-644).
\* The request reaches the backend at once; the response travels for an
\* arbitrary time.

\* the `visits` array of GET /api/games/{game_id}/?include_grid=true
ServerVisits(g) ==
    [c \in {x \in DOMAIN srvVisits[g] : srvVisits[g][x].visit_count > 0} |->
        srvVisits[g][c]]

\* click on the Resume button of an active game listed in the lobby;
\* API.getGameWithGrid
onResumeGame ==
    \E g \in srvCreated \ srvFinished :
        /\ screen = "lobby-screen"
        /\ nRequests < MaxRequests
        /\ nRequests' = nRequests + 1
        /\ gameResps' = gameResps \cup
                {[n |-> FreshId({r.n : r \in gameResps}), kind |-> "resume",
                  game |-> g,
                  visits |-> ServerVisits(g)]}
        /\ UNCHANGED <<appVars, uiVars, hudVars, browserVars, wakeVars,
                       editorVars, visitNetVars, finishNetVars, serverVars>>

\* submit of the setup form with a board selected: API.createGame; the
\* backend creates a game that did not exist
onChooseLocation ==
    \E g \in Games \ srvCreated :
        /\ screen = "lobby-screen"
        /\ ~chooseLocationBtnDisabled
        /\ nRequests < MaxRequests
        /\ nRequests' = nRequests + 1
        /\ chooseLocationBtnDisabled' = TRUE
        /\ srvCreated' = srvCreated \cup {g}
        /\ gameResps' = gameResps \cup
                {[n |-> FreshId({r.n : r \in gameResps}), kind |-> "create",
                  game |-> g,
                  visits |-> EmptyMap]}
        /\ UNCHANGED <<appVars, screen, pauseModal, pauseFinishBtnDisabled,
                       hudVars, browserVars, wakeVars, editorVars,
                       visitNetVars, finishNetVars, srvVisits, srvFinished>>

\* the loop over `visits` in _startGame
Rehydrate(visits) ==
    [c \in DOMAIN visits |->
        [visitCount |-> visits[c].visit_count, dwellS |-> visits[c].dwell_s]]

_startGame(r) ==
    LET vc == IF r.kind = "resume" THEN Rehydrate(r.visits) ELSE EmptyMap IN
    /\ gameId' = r.game
    /\ grid' = loadGrid(GridOf(r.game))
    /\ totalCells' = TotalCellsOf(r.game)
    /\ minDwellS' = MinDwellOf(r.game)
    /\ currentCellId' = Null
    /\ visitedCells' = vc
    /\ screen' = "game-screen"
    /\ visitedCount' = NumVisited(vc)
    /\ scorePct' = Pct(NumVisited(vc), TotalCellsOf(r.game))
    /\ GPSstart
    /\ WakeLockBecomes(_acquireWakeLock(applySettings(WakeLock, r.game)))
    /\ UNCHANGED <<cellEnteredAt, dwellTimer, countdownInterval, cellStatus,
                   pauseModal, pauseFinishBtnDisabled,
                   chooseLocationBtnDisabled, timers, intervals>>

\* the catch branches of onResumeGame and onChooseLocation
StartFailed(r) ==
    /\ chooseLocationBtnDisabled' =
          IF r.kind = "create" THEN FALSE ELSE chooseLocationBtnDisabled
    /\ UNCHANGED <<appVars, screen, pauseModal, pauseFinishBtnDisabled,
                   hudVars, timers, intervals, gpsVars, wakeVars>>

\* the response of createGame / getGameWithGrid reaches the client, or is
\* lost on the way and the await rejects
StartResponse ==
    \E r \in gameResps :
        /\ gameResps' = gameResps \ {r}
        /\ \/ _startGame(r)
           \/ StartFailed(r)
        /\ UNCHANGED <<editorVars, visitNetVars, finishNetVars, serverVars,
                       histVars>>

----------------------------------------------------------------------------
\* Pause, resume, lobby (app.js 784-819, 846-871)

\* variant: the dwell timer is not cleared
onPauseGame_KeepsTimer ==
    /\ screen = "game-screen"
    /\ ~pauseModal
    /\ GPSstop
    /\ WakeLockBecomes(_releaseWakeLock(WakeLock))
    /\ timers' = timers
    /\ dwellTimer' = NoHandle
    /\ intervals' = clearInterval(intervals, countdownInterval)
    /\ countdownInterval' = NoHandle
    /\ currentCellId' = Null
    /\ pauseModal' = TRUE
    /\ pauseFinishBtnDisabled' = FALSE
    /\ UNCHANGED <<gameId, grid, visitedCells, cellEnteredAt, minDwellS,
                   totalCells, screen, chooseLocationBtnDisabled, hudVars,
                   editorVars, startNetVars, visitNetVars, finishNetVars,
                   serverVars, histVars>>

onPauseGame ==
    /\ screen = "game-screen"
    /\ ~pauseModal
    /\ GPSstop
    /\ WakeLockBecomes(_releaseWakeLock(WakeLock))
    /\ timers' = clearTimeout(timers, dwellTimer)
    /\ dwellTimer' = NoHandle
    /\ intervals' = clearInterval(intervals, countdownInterval)
    /\ countdownInterval' = NoHandle
    /\ currentCellId' = Null
    /\ pauseModal' = TRUE
    /\ pauseFinishBtnDisabled' = FALSE
    /\ UNCHANGED <<gameId, grid, visitedCells, cellEnteredAt, minDwellS,
                   totalCells, screen, chooseLocationBtnDisabled, hudVars,
                   editorVars, startNetVars, visitNetVars, finishNetVars,
                   serverVars, histVars>>

\* variant: the visited cells are dropped on resume
onResumeFromPause_DropsVisited ==
    /\ pauseModal
    /\ pauseModal' = FALSE
    /\ cellStatus' = Status("", Null, 0)
    /\ GPSstart
    /\ WakeLockBecomes(_acquireWakeLock(WakeLock))
    /\ timers' = {[t EXCEPT !.preResume = TRUE] : t \in timers}
    /\ visitedCells' = EmptyMap
    /\ UNCHANGED <<gameId, grid, currentCellId, cellEnteredAt, dwellTimer,
                   countdownInterval, minDwellS, totalCells, screen,
                   pauseFinishBtnDisabled, chooseLocationBtnDisabled,
                   visitedCount, scorePct, intervals, editorVars,
                   startNetVars, visitNetVars, finishNetVars, serverVars,
                   histVars>>

onResumeFromPause ==
    /\ pauseModal
    /\ pauseModal' = FALSE
    /\ cellStatus' = Status("", Null, 0)
    /\ GPSstart
    /\ WakeLockBecomes(_acquireWakeLock(WakeLock))
    /\ timers' = {[t EXCEPT !.preResume = TRUE] : t \in timers}
    /\ UNCHANGED <<appVars, screen, pauseFinishBtnDisabled,
                   chooseLocationBtnDisabled, visitedCount, scorePct,
                   intervals, editorVars, startNetVars, visitNetVars,
                   finishNetVars, serverVars, histVars>>

\* App.onNewGame: everything but the pause modal
onNewGame ==
    /\ GPSstop
    /\ WakeLockBecomes(_releaseWakeLock(WakeLock))
    /\ timers' = clearTimeout(timers, dwellTimer)
    /\ intervals' = clearInterval(intervals, countdownInterval)
    /\ gameId' = Null
    /\ grid' = NullGrid
    /\ visitedCells' = EmptyMap
    /\ currentCellId' = Null
    /\ cellEnteredAt' = NoTime
    /\ dwellTimer' = NoHandle
    /\ countdownInterval' = NoHandle
    /\ minDwellS' = DefaultMinDwellS
    /\ totalCells' = 0
    /\ chooseLocationBtnDisabled' = FALSE
    /\ screen' = "lobby-screen"
    /\ UNCHANGED <<pauseFinishBtnDisabled, hudVars, editorVars,
                   startNetVars, visitNetVars, finishNetVars, serverVars,
                   histVars>>

\* the Lobby button of the pause modal
onBackToLobby ==
    /\ pauseModal
    /\ pauseModal' = FALSE
    /\ onNewGame

\* the New game button of the result screen
NewGameClicked ==
    /\ screen = "result-screen"
    /\ UNCHANGED pauseModal
    /\ onNewGame

----------------------------------------------------------------------------
\* Finishing (app.js 822-843, api.js 154-161)

\* click on the Finish button of the pause modal, up to the await; the
\* backend sets finished_at unless the request is lost
onFinishGame ==
    \E ok \in BOOLEAN :
        /\ pauseModal
        /\ ~pauseFinishBtnDisabled
        /\ nRequests < MaxRequests
        /\ nRequests' = nRequests + 1
        /\ pauseFinishBtnDisabled' = TRUE
        /\ srvFinished' = IF ok /\ gameId \in srvCreated
                          THEN srvFinished \cup {gameId} ELSE srvFinished
        /\ finishResps' = finishResps \cup
                {[n |-> FreshId({r.n : r \in finishResps}), game |-> gameId,
                  ok |-> ok /\ gameId \in srvCreated]}
        /\ UNCHANGED <<appVars, screen, pauseModal, chooseLocationBtnDisabled,
                       hudVars, browserVars, wakeVars, editorVars,
                       startNetVars, visitNetVars, srvCreated, srvVisits>>

\* onFinishGame after the await: the try body or the catch body
FinishResponse ==
    \E r \in finishResps :
        /\ finishResps' = finishResps \ {r}
        /\ pauseModal' = FALSE
        /\ IF r.ok
           THEN /\ GPSstop
                /\ WakeLockBecomes(_releaseWakeLock(WakeLock))
                /\ screen' = "result-screen"
                /\ UNCHANGED cellStatus
           ELSE /\ cellStatus' = Status("Error", Null, 0)
                /\ UNCHANGED <<gpsVars, wakeVars, screen>>
        /\ UNCHANGED <<appVars, pauseFinishBtnDisabled,
                       chooseLocationBtnDisabled, visitedCount, scorePct,
                       timers, intervals, editorVars, startNetVars,
                       visitNetVars, serverVars, histVars>>

----------------------------------------------------------------------------

Next ==
    \/ PositionSample
    \/ PositionError
    \/ DwellTimerFires
    \/ VisitResponse
    \/ ServerRecordVisit
    \/ VisitRequestLost
    \/ Tick
    \/ onResumeGame
    \/ onChooseLocation
    \/ StartResponse
    \/ onPauseGame
    \/ onResumeFromPause
    \/ onBackToLobby
    \/ NewGameClicked
    \/ onFinishGame
    \/ FinishResponse

Spec == Init /\ [][Next]_vars

----------------------------------------------------------------------------
\* One walk through a game of four cells with min_dwell_s = 10: the player
\* resumes the game "g4", enters cell A and stays until the visit of A is
\* recorded, moves to cell B and stays 4 seconds, returns to cell A and
\* stays. The backend is reachable and every response of a visit commit
\* arrives; the geolocation watch may report errors in between.

\* seconds the player stays in cell B
SecondsInB == 4

WalkInit ==
    /\ gameId = Null
    /\ grid = NullGrid
    /\ visitedCells = EmptyMap
    /\ currentCellId = Null
    /\ cellEnteredAt = NoTime
    /\ dwellTimer = NoHandle
    /\ countdownInterval = NoHandle
    /\ minDwellS = DefaultMinDwellS
    /\ totalCells = 0
    /\ watchId = NoHandle
    /\ screen = "lobby-screen"
    /\ pauseModal = FALSE
    /\ pauseFinishBtnDisabled = FALSE
    /\ chooseLocationBtnDisabled = FALSE
    /\ cellStatus = Status("", Null, 0)
    /\ visitedCount = 0
    /\ scorePct = 0
    /\ timers = {}
    /\ intervals = {}
    /\ watches = {}
    /\ wakeLockEnabled = FALSE
    /\ _wakeLock = NoHandle
    /\ wakeRequests = 0
    /\ sentinels = {}
    /\ EditorStart
    /\ gameResps = {}
    /\ visitReqs = {}
    /\ visitResps = {}
    /\ finishResps = {}
    /\ srvCreated = {"g4"}
    /\ srvVisits = [g \in {"g4"} |-> [c \in CellsOf(g) |->
                        [visit_count |-> 0, dwell_s |-> 0]]]
    /\ srvFinished = {}
    /\ nRequests = 0

\* the player resumes the game, once
WalkResume ==
    /\ nRequests = 0
    /\ onResumeGame

\* the visit of A has been recorded once, on both sides, and no commit is
\* in flight
VisitOfARecordedOnce ==
    /\ "A" \in DOMAIN visitedCells
    /\ visitedCells["A"].visitCount = 1
    /\ srvVisits["g4"]["A"].visit_count = 1
    /\ visitReqs = {}
    /\ visitResps = {}

\* a sample in cell A: the first one of the game, one more while the player
\* is there, or the return from cell B after SecondsInB seconds
WalkSampleInA ==
    \E pt \in {"a1", "a2"} :
        /\ \/ currentCellId = Null /\ nRequests = 1
           \/ currentCellId = "A"
           \/ /\ currentCellId = "B"
              /\ \E t \in timers : t.id = dwellTimer
                                      /\ t.enteredAt = SecondsInB
        /\ PositionSampleAt(pt)

\* a sample in cell B: the move from cell A once its visit is recorded, or
\* one more while the player is there
WalkSampleInB ==
    /\ \/ currentCellId = "B"
       \/ /\ currentCellId = "A"
          /\ timers = {}
          /\ VisitOfARecordedOnce
    /\ PositionSampleAt("b1")

\* a second passes; the player does not stay in cell B beyond SecondsInB
WalkTick ==
    /\ currentCellId = "B" =>
            \A t \in timers : t.enteredAt < SecondsInB
    /\ Tick

\* the response of a visit commit arrives
WalkVisitResponse == \E r \in visitResps : VisitResponseOf(r, TRUE)

WalkNext ==
    \/ WalkResume
    \/ StartResponse
    \/ WalkSampleInA
    \/ WalkSampleInB
    \/ PositionError
    \/ WalkTick
    \/ DwellTimerFires
    \/ ServerRecordVisit
    \/ WalkVisitResponse

WalkSpec == WalkInit /\ [][WalkNext]_vars

----------------------------------------------------------------------------
\* Cell detection on arbitrary grids: a game is being played on a grid of at
\* most MaxFeatures features, drawn from every cell_id and polygon over two
\* points, and position samples arrive. A polygon is the set of points it
\* contains, as booleanPointInPolygon tells; its boundary is the part of
\* them lying on its ring.

MaxFeatures == 2

DetectFeatures ==
    {f \in [cell_id : {"A", "B"}, polygon : SUBSET {"a1", "b1"},
            boundary : SUBSET {"a1", "b1"}] : f.boundary \subseteq f.polygon}

DetectGrids ==
    {[isNull |-> FALSE, features |-> fs] :
        fs \in UNION {[1..n -> DetectFeatures] : n \in 0..MaxFeatures}}

\* the state after _startGame of a created game whose grid is any of
\* DetectGrids
DetectInit ==
    /\ gameId = "g1"
    /\ grid \in {loadGrid(g) : g \in DetectGrids}
    /\ visitedCells = EmptyMap
    /\ currentCellId = Null
    /\ cellEnteredAt = NoTime
    /\ dwellTimer = NoHandle
    /\ countdownInterval = NoHandle
    /\ minDwellS = MinDwellOf("g1")
    /\ totalCells = Len(grid.features)
    /\ watchId = 1
    /\ screen = "game-screen"
    /\ pauseModal = FALSE
    /\ pauseFinishBtnDisabled = FALSE
    /\ chooseLocationBtnDisabled = TRUE
    /\ cellStatus = Status("", Null, 0)
    /\ visitedCount = 0
    /\ scorePct = 0
    /\ timers = {}
    /\ intervals = {}
    /\ watches = {1}
    /\ wakeLockEnabled = FALSE
    /\ _wakeLock = NoHandle
    /\ wakeRequests = 0
    /\ sentinels = {}
    /\ EditorStart
    /\ gameResps = {}
    /\ visitReqs = {}
    /\ visitResps = {}
    /\ finishResps = {}
    /\ srvCreated = {"g1"}
    /\ srvVisits = [g \in Games |-> [c \in CellsOf(g) |->
                        [visit_count |-> 0, dwell_s |-> 0]]]
    /\ srvFinished = {}
    /\ nRequests = 1

DetectNext == PositionSample

DetectSpec == DetectInit /\ [][DetectNext]_vars

----------------------------------------------------------------------------
\* The screen wake lock (app.js 145-149, 177-215, 240-248): the application
\* as constructed, with settings.wakeLockEnabled = true. Positions, timers
\* and visits play no part here.

MaxWakeLocks == 3

\* the requests not yet settled and the sentinels not released leave room
\* for k more requests
WakeRoom(k) == wakeRequests + Cardinality(sentinels) + k <= MaxWakeLocks

WakeInit ==
    /\ gameId = Null
    /\ grid = NullGrid
    /\ visitedCells = EmptyMap
    /\ currentCellId = Null
    /\ cellEnteredAt = NoTime
    /\ dwellTimer = NoHandle
    /\ countdownInterval = NoHandle
    /\ minDwellS = DefaultMinDwellS
    /\ totalCells = 0
    /\ watchId = NoHandle
    /\ screen = "lobby-screen"
    /\ pauseModal = FALSE
    /\ pauseFinishBtnDisabled = FALSE
    /\ chooseLocationBtnDisabled = FALSE
    /\ cellStatus = Status("", Null, 0)
    /\ visitedCount = 0
    /\ scorePct = 0
    /\ timers = {}
    /\ intervals = {}
    /\ watches = {}
    /\ wakeLockEnabled = TRUE
    /\ _wakeLock = NoHandle
    /\ wakeRequests = 0
    /\ sentinels = {}
    /\ EditorStart
    /\ gameResps = {}
    /\ visitReqs = {}
    /\ visitResps = {}
    /\ finishResps = {}
    /\ srvCreated = {"g1"}
    /\ srvVisits = [g \in Games |-> [c \in CellsOf(g) |->
                        [visit_count |-> 0, dwell_s |-> 0]]]
    /\ srvFinished = {}
    /\ nRequests = 0

\* navigator.wakeLock.request('screen') resolves: the rest of the try body
\* of _acquireWakeLock stores the new sentinel in _wakeLock
WakeLockGranted ==
    /\ wakeRequests > 0
    /\ LET s == FreshId(sentinels) IN
       WakeLockBecomes([WakeLock EXCEPT !.requests = @ - 1,
                                        !.sentinels = @ \cup {s},
                                        !._wakeLock = s])
    /\ UNCHANGED <<appVars, uiVars, hudVars, browserVars, editorVars,
                   startNetVars, visitNetVars, finishNetVars, serverVars,
                   histVars>>

\* navigator.wakeLock.request('screen') rejects: the empty catch body
WakeLockDenied ==
    /\ wakeRequests > 0
    /\ WakeLockBecomes([WakeLock EXCEPT !.requests = @ - 1])
    /\ UNCHANGED <<appVars, uiVars, hudVars, browserVars, editorVars,
                   startNetVars, visitNetVars, finishNetVars, serverVars,
                   histVars>>

\* The page is hidden and shown again: the browser releases every sentinel,
\* the 'release' listener of each sets _wakeLock to null, and the
\* visibilitychange listener acquires the lock if a game is loaded.
onVisibilityChange ==
    /\ LET w == [WakeLock EXCEPT !.sentinels = {},
                                 !._wakeLock = IF sentinels = {} THEN @
                                               ELSE NoHandle]
       IN WakeLockBecomes(IF gameId # Null THEN _acquireWakeLock(w) ELSE w)
    /\ UNCHANGED <<appVars, uiVars, hudVars, browserVars, editorVars,
                   startNetVars, visitNetVars, finishNetVars, serverVars,
                   histVars>>

\* App.onSettingsSave with the wake lock box checked or not
onSettingsSave ==
    \E checked \in BOOLEAN :
        /\ WakeLockBecomes(applySettings(
                [WakeLock EXCEPT !.wakeLockEnabled = checked], gameId))
        /\ UNCHANGED <<appVars, uiVars, hudVars, browserVars, editorVars,
                       startNetVars, visitNetVars, finishNetVars,
                       serverVars, histVars>>

WakeStartResponse == WakeRoom(2) /\ StartResponse

WakeResumeFromPause == WakeRoom(1) /\ onResumeFromPause

WakeVisibilityChange == WakeRoom(1) /\ onVisibilityChange

WakeSettingsSave == WakeRoom(1) /\ onSettingsSave

WakeNext ==
    \/ onResumeGame
    \/ onChooseLocation
    \/ WakeStartResponse
    \/ onPauseGame
    \/ WakeResumeFromPause
    \/ onBackToLobby
    \/ NewGameClicked
    \/ onFinishGame
    \/ FinishResponse
    \/ WakeLockGranted
    \/ WakeLockDenied
    \/ WakeVisibilityChange
    \/ WakeSettingsSave

WakeSpec == WakeInit /\ [][WakeNext]_vars

----------------------------------------------------------------------------
\* Properties of the dwell tracker (onPositionUpdate, onDwellComplete)

\* C1: a commit request for a cell is sent only by a timer whose full delay
\* has elapsed since the sample that made the cell the tracked cell, and that
\* has seen no sample located outside the cell since then.
C1_CommitOnlyAfterUninterruptedDwell ==
    [][\A t \in timers :
            VisitRequest(t) \in visitReqs' =>
                /\ t.enteredAt >= t.delay
                /\ ~t.interrupted]_vars

\* C2: a sample located in a cell other than the tracked one sends no commit
\* and leaves no earlier timer pending; a located cell becomes the tracked
\* cell with one timer armed now for minDwellS, and a sample outside the grid
\* leaves no tracked cell and no timer, with the status "Outside grid area".
C2_CellChangeCancelsAndRearms ==
    [][\A pt \in Points :
            LET newCellId == detectCell(pt, grid) IN
            (~grid.isNull /\ newCellId # currentCellId /\ PositionSampleAt(pt))
            =>
            /\ visitReqs' = visitReqs
            /\ nRequests' = nRequests
            /\ currentCellId' = newCellId
            /\ IF newCellId # Null
               THEN \E t \in timers' :
                        /\ timers' = {t}
                        /\ dwellTimer' = t.id
                        /\ t.cellId = newCellId
                        /\ t.enteredAt = NewDate
                        /\ t.delay = minDwellS
               ELSE /\ timers' = {}
                    /\ dwellTimer' = NoHandle
                    /\ cellStatus'.kind = "Outside grid area"]_vars

C2_Witness ==
    /\ cellStatus.kind = "Outside grid area"
    /\ currentCellId = Null
    /\ timers = {}
    /\ dwellTimer = NoHandle
    /\ nRequests = 1

\* C3: a sample located in the tracked cell leaves the tracked cell, its
\* entry timestamp, the handle of the pending timer, the pending timer with
\* its elapsed time, and the visited cells as they were: in every step these
\* are unchanged, or the step is not such a sample.
C3_SameCellSampleIsIgnored ==
    [][\/ /\ UNCHANGED <<currentCellId, cellEnteredAt, dwellTimer,
                          visitedCells>>
          /\ {<<t.id, t.cellId, t.enteredAt, t.delay, t.lat_lon>> :
                    t \in timers'}
                = {<<t.id, t.cellId, t.enteredAt, t.delay, t.lat_lon>> :
                    t \in timers}
       \/ ~\E pt \in Points :
                /\ ~grid.isNull
                /\ detectCell(pt, grid) = currentCellId
                /\ PositionSampleAt(pt)]_vars

C3_Witness ==
    \E t \in timers :
        /\ t.cellId = currentCellId
        /\ dwellTimer = t.id
        /\ t.moved
        /\ t.enteredAt > NewDate

\* C4: at most one dwell timer is pending, and the pending timer is the one
\* whose handle is held in dwellTimer.
C4_AtMostOnePendingTimer ==
    /\ Cardinality(timers) <= 1
    /\ \A t \in timers : dwellTimer = t.id

C4_Witness ==
    \E t \in timers, q \in visitReqs :
        /\ dwellTimer = t.id
        /\ q.game = gameId
        /\ q.cell_id # t.cellId

\* C5: no two commit requests of one game and one cell are in flight (sent,
\* response not yet received) at the same time.
C5_NoDuplicateCommitInFlight ==
    LET inFlight == {<<q.seq, q.game, q.cell_id>> : q \in visitReqs}
                    \cup {<<r.seq, r.game, r.cellId>> : r \in visitResps}
    IN \A x, y \in inFlight : (x[2] = y[2] /\ x[3] = y[3]) => x[1] = y[1]

\* C6: a commit that fails, by a non-2xx response, by a request that does
\* not reach the backend or by a response that does not reach the client,
\* leaves visitedCells and the displayed score as they were and shows the
\* status "Visit error".
C6_FailedCommitLeavesLocalState ==
    [][((\E r \in visitResps \ visitResps' : ~r.ok)
        \/ (visitResps' = visitResps /\ visitReqs' # visitReqs
              /\ visitReqs' \subseteq visitReqs)
        \/ (visitResps' # visitResps /\ visitResps' \subseteq visitResps
              /\ cellStatus'.kind # "Visited"))
       =>
       /\ UNCHANGED <<visitedCells, visitedCount, scorePct>>
       /\ cellStatus'.kind = "Visit error"]_vars

C6_Witness ==
    /\ cellStatus.kind = "Visit error"
    /\ gameId # Null
    /\ visitReqs = {} /\ visitResps = {}

\* C7: whenever a cell's local visitCount appears or changes, its new value
\* is the visit_count carried by a response received in that step: the
\* response of a commit for that cell, or the visits of a resume fetch.
C7_VisitCountOnlyFromServer ==
    [][\A c \in DOMAIN visitedCells' :
            (c \notin DOMAIN visitedCells
                \/ visitedCells'[c].visitCount # visitedCells[c].visitCount)
            =>
            \/ \E r \in visitResps \ visitResps' :
                    /\ r.ok
                    /\ r.cellId = c
                    /\ visitedCells'[c].visitCount = r.visit_count
            \/ \E r \in gameResps \ gameResps' :
                    /\ c \in DOMAIN r.visits
                    /\ visitedCells'[c].visitCount = r.visits[c].visit_count
      ]_vars

C7_Witness ==
    \E c \in DOMAIN visitedCells :
        /\ visitedCells[c].visitCount = 2
        /\ srvVisits[gameId][c].visit_count = 2

\* C8: when the response of a commit of the current game is received and no
\* commit remains in flight, the local visitCount of each visited cell and
\* the displayed visited count equal the backend's values.
C8_LocalStateEqualsServer ==
    [][(/\ \E r \in visitResps \ visitResps' : r.ok /\ r.game = gameId
        /\ cellStatus'.kind = "Visited"
        /\ visitReqs' = {}
        /\ visitResps' = {})
       =>
       /\ \A c \in DOMAIN visitedCells' :
            visitedCells'[c].visitCount = srvVisits[gameId][c].visit_count
       /\ visitedCount' = ServerVisitedCount(srvVisits, gameId)]_vars

\* C9: onPauseGame leaves no timer pending, sends no commit and resets the
\* tracked cell to none, so that no timer armed before the pause can fire
\* after it.
C9_PauseCancelsTimer ==
    [][onPauseGame =>
            /\ timers' = {}
            /\ dwellTimer' = NoHandle
            /\ currentCellId' = Null
            /\ visitReqs' = visitReqs
            /\ nRequests' = nRequests]_vars

C9_Witness ==
    /\ pauseModal
    /\ cellStatus.kind = "In cell"
    /\ timers = {}
    /\ currentCellId = Null
    /\ visitReqs = {}

\* C10: every commit sent after a resume from pause comes from a timer armed
\* after that resume, so that its entered_at is not earlier than the resume.
C10_NoPausedTimeCredited ==
    [][\A t \in timers :
            VisitRequest(t) \in visitReqs' => ~t.preResume]_vars

----------------------------------------------------------------------------
\* Properties of the session lifecycle and of the commit

\* C11: onPauseGame and onResumeFromPause leave gameId, the grid, minDwellS,
\* totalCells and the visited cells as they were.
C11_PauseResumeKeepState ==
    [][(onPauseGame \/ onResumeFromPause) =>
            UNCHANGED <<gameId, grid, minDwellS, totalCells, visitedCells>>
      ]_vars

C11_Witness ==
    /\ screen = "game-screen"
    /\ ~pauseModal
    /\ watches # {}
    /\ cellStatus.kind = ""
    /\ visitedCells # EmptyMap

\* C12: once the finish request of the current session has succeeded and its
\* result is shown, then as long as that session is the current one it does
\* not return to the game screen or to the pause modal, no geolocation watch
\* delivers samples, no timer is armed and no commit request is sent.
C12_FinishedIsTerminal ==
    [][(screen = "result-screen" /\ gameId \in srvFinished
            /\ gameId' = gameId) =>
            /\ screen' = "result-screen"
            /\ ~pauseModal'
            /\ watches' = {}
            /\ \A t \in timers' : \E u \in timers : u.id = t.id
            /\ visitReqs' \subseteq visitReqs]_vars

\* C13: once the finish request of the current session has succeeded and its
\* result is shown, the visited cells and the displayed score of that session
\* are not modified.
C13_FinishedIsReadOnly ==
    [][(screen = "result-screen" /\ gameId \in srvFinished
            /\ gameId' = gameId) =>
            UNCHANGED <<visitedCells, visitedCount, scorePct>>]_vars

\* C14: a position sample and onPauseGame leave the commits in flight as
\* they were, and a success response that reaches the client records its cell
\* in visitedCells with the visit_count of the response, whatever the tracked
\* cell and whether or not the pause modal is shown.
C14_InFlightCommitCompletes ==
    [][/\ UNCHANGED visitNetVars \/ ~(PositionSample \/ onPauseGame)
       /\ \A r \in visitResps :
            (r.ok /\ VisitResponseOf(r, TRUE)) =>
                /\ r.cellId \in DOMAIN visitedCells'
                /\ visitedCells'[r.cellId].visitCount = r.visit_count]_vars

C14_Witness ==
    /\ cellStatus.kind = "Visited"
    /\ cellStatus.cell = "A"
    /\ currentCellId = "B"
    /\ "A" \in DOMAIN visitedCells

\* C15: when the response of a resume fetch starts the game, the visited
\* cells are exactly the visits of the response, with their visit_count and
\* dwell_s, the tracked cell is none and no dwell timer is pending.
C15_ResumeRehydratesAndStartsIdle ==
    [][\A r \in gameResps :
            (r.kind = "resume" /\ gameResps' = gameResps \ {r}
                /\ _startGame(r))
            =>
            /\ DOMAIN visitedCells' = DOMAIN r.visits
            /\ \A c \in DOMAIN r.visits :
                    /\ visitedCells'[c].visitCount = r.visits[c].visit_count
                    /\ visitedCells'[c].dwellS = r.visits[c].dwell_s
            /\ currentCellId' = Null
            /\ dwellTimer' = NoHandle
            /\ timers' = {}]_vars

\* C16: a sample that enters a cell already in visitedCells arms a timer of
\* minDwellS for it, and when the timer of a cell in visitedCells fires a
\* commit request for that cell is sent.
C16_VisitedCellRunsFullCycle ==
    [][/\ \A pt \in Points :
            LET newCellId == detectCell(pt, grid) IN
            (~grid.isNull /\ newCellId # currentCellId /\ newCellId # Null
                /\ newCellId \in DOMAIN visitedCells /\ PositionSampleAt(pt))
            =>
            \E t \in timers' :
                /\ dwellTimer' = t.id
                /\ t.cellId = newCellId
                /\ t.delay = minDwellS
                /\ t.enteredAt = NewDate
       /\ \A t \in timers :
            (t.cellId \in DOMAIN visitedCells /\ timers' = timers \ {t}
                /\ onDwellComplete(t))
            =>
            \E q \in visitReqs' \ visitReqs :
                q.cell_id = t.cellId /\ q.game = gameId]_vars

C16_Witness ==
    /\ cellStatus.kind = "already visited"
    /\ \E q \in visitReqs :
            /\ q.cell_id = cellStatus.cell
            /\ q.game = gameId
            /\ q.cell_id \in DOMAIN visitedCells

\* C17: the commit request sent when a dwell timer fires carries the cell of
\* the timer, the entry timestamp taken when the timer was armed, the moment
\* of firing as exit timestamp, and the coordinate of the sample that armed
\* the timer.
C17_CommitCarriesEntryCoordinate ==
    [][\A t \in timers :
            (timers' = timers \ {t} /\ onDwellComplete(t))
            =>
            \E q \in visitReqs' \ visitReqs :
                /\ q.game = gameId
                /\ q.cell_id = t.cellId
                /\ q.entered_at = 0 - t.enteredAt
                /\ q.exited_at = 0 - NewDate
                /\ q.lat_lon = t.lat_lon]_vars

C17_Witness ==
    \E q \in visitReqs :
        /\ q.cell_id = "A"
        /\ q.lat_lon = "a1"
        /\ q.moved
        /\ q.entered_at < q.exited_at

\* C17, as stated: the coordinate of every commit request is that of the most
\* recent position sample received before the timer fired.
C17_CommitCarriesLatestCoordinate ==
    \A q \in visitReqs : ~q.moved

\* C18: the commit request of a dwell timer is submitted in the very step in
\* which the timer fires, and a step submits a request only for the one timer
\* that fires in it; so requests are submitted in the order of the firings.
C18_CommitsSentInFiringOrder ==
    [][/\ \A t \in timers :
            (timers' = timers \ {t} /\ onDwellComplete(t)) =>
                visitReqs' \ visitReqs = {VisitRequest(t)}
       /\ (visitReqs' \ visitReqs # {}) =>
            \E t \in timers :
                /\ timers' = timers \ {t}
                /\ visitReqs' = visitReqs \cup {VisitRequest(t)}]_vars

C18_Witness ==
    \E p, q \in visitReqs :
        /\ p.game = q.game
        /\ p.cell_id = "A"
        /\ q.cell_id = "B"

\* C19: while the message of a geolocation error is displayed, no position
\* sample is processed by onPositionUpdate and the countdown does not replace
\* the message.
C19_SamplingStopsOnError ==
    [][cellStatus.kind = "GPS error" =>
            /\ ~PositionSample
            /\ Tick => cellStatus' = cellStatus]_vars

\* C20: in the walk through the four-cell game with min_dwell_s = 10 (cell A
\* until its visit is recorded, 4 seconds in cell B, cell A again), every
\* commit is for cell A, cell B is never recorded on either side, the first
\* commit leaves visitCount(A) = 1, and once the second commit is answered
\* visitCount(A) = 2, the visited count is 1 and the score is 25.0 percent.
C20_WalkScenario ==
    /\ \A q \in visitReqs : q.cell_id = "A" /\ q.exited_at - q.entered_at >= 10
    /\ \A r \in visitResps : r.cellId = "A" /\ r.ok
    /\ gameId = "g4" =>
        /\ srvVisits["g4"]["B"].visit_count = 0
        /\ "B" \notin DOMAIN visitedCells
        /\ (nRequests = 2 /\ visitReqs = {} /\ visitResps = {}) =>
                /\ "A" \in DOMAIN visitedCells
                /\ visitedCells["A"].visitCount = 1
                /\ visitedCount = 1
                /\ scorePct = 250
        /\ (nRequests = 3 /\ visitReqs = {} /\ visitResps = {}) =>
                /\ "A" \in DOMAIN visitedCells
                /\ visitedCells["A"].visitCount = 2
                /\ visitedCount = 1
                /\ scorePct = 250

C20_Witness ==
    /\ gameId = "g4"
    /\ totalCells = 4
    /\ minDwellS = 10
    /\ nRequests = 3
    /\ visitReqs = {} /\ visitResps = {}
    /\ currentCellId = "A"
    /\ cellStatus = Status("Visited", "A", 0)
    /\ visitedCells["A"].visitCount = 2
    /\ srvVisits["g4"]["A"].visit_count = 2
    /\ scorePct = 250

----------------------------------------------------------------------------
\* Properties of visit recording, of finishing and of the session's resources

\* C21: when the backend accepts a commit request, the record of its (game,
\* cell) gets visit_count 1 if the cell had no visit and one more than before
\* otherwise, every other record is left as it was, and the number of visited
\* cells of the game grows by one for a first visit and not at all for a
\* repeated one; the response carries these two numbers.
C21_VisitRecordingIsUpsert ==
    [][\A req \in visitReqs :
            (VisitValid(req) /\ visitReqs' = visitReqs \ {req}
                /\ visitResps' # visitResps)
            =>
            LET g == req.game
                c == req.cell_id
                before == srvVisits[g][c].visit_count
            IN
            /\ srvVisits'[g][c].visit_count = before + 1
            /\ \A h \in DOMAIN srvVisits : \A d \in DOMAIN srvVisits[h] :
                    (h # g \/ d # c) => srvVisits'[h][d] = srvVisits[h][d]
            /\ ServerVisitedCount(srvVisits', g) =
                    ServerVisitedCount(srvVisits, g)
                        + (IF before = 0 THEN 1 ELSE 0)
            /\ \E r \in visitResps' \ visitResps :
                    /\ r.ok
                    /\ r.game = g /\ r.cellId = c
                    /\ r.visit_count = before + 1
                    /\ r.visited_count = ServerVisitedCount(srvVisits', g)]_vars

C21_Witness ==
    \E r \in visitResps :
        /\ r.ok
        /\ r.visit_count = 2
        /\ r.visited_count = 1
        /\ srvVisits[r.game][r.cellId].visit_count = 2

\* C22: a commit request whose dwell time is below the min_dwell_s of its
\* game, or whose cell is not in the grid of its game, changes no record of
\* the backend and is answered by an error response; and the arrival of an
\* error response leaves visitedCells as it was.
C22_InvalidCommitIsRejected ==
    [][/\ \A req \in visitReqs :
            (/\ \/ req.exited_at - req.entered_at < MinDwellOf(req.game)
                \/ req.cell_id \notin CellsOf(req.game)
             /\ visitReqs' = visitReqs \ {req}
             /\ visitResps' # visitResps)
            =>
            /\ srvVisits' = srvVisits
            /\ \E r \in visitResps' \ visitResps :
                    r.seq = req.seq /\ ~r.ok
       /\ \A r \in visitResps :
            (~r.ok /\ visitResps' = visitResps \ {r})
                => visitedCells' = visitedCells]_vars

C22_Witness ==
    \E r \in visitResps :
        /\ ~r.ok
        /\ r.game \in srvCreated
        /\ r.cellId \notin CellsOf(r.game)
        /\ \A c \in CellsOf(r.game) : srvVisits[r.game][c].visit_count = 0

\* C23: when the success response of a commit reaches the client, the
\* displayed visited count and score become the visited_count and score_pct
\* of that response, also when they differ from what the local visited cells
\* would give.
C23_ScoreIsServerReported ==
    [][\A r \in visitResps :
            (r.ok /\ VisitResponseOf(r, TRUE)) =>
                /\ visitedCount' = r.visited_count
                /\ scorePct' = r.score_pct]_vars

C23_Witness ==
    /\ cellStatus.kind = "Visited"
    /\ visitReqs = {} /\ visitResps = {}
    /\ gameId # Null
    /\ visitedCount = ServerVisitedCount(srvVisits, gameId)
    /\ visitedCount # NumVisited(visitedCells)

\* C24: on every grid, the cell a sample is located in is the cell_id of the
\* first feature, in the order of the grid, whose polygon contains the point,
\* and none when no polygon contains it; so on a grid whose polygons do not
\* overlap (no point strictly inside one polygon is contained in another)
\* it is the cell_id of the polygon the point is strictly inside of.
C24_DetectCellLocates ==
    [][\A pt \in Points :
            PositionSampleAt(pt) =>
            LET f == grid.features
                hits == {i \in 1..Len(f) : pt \in f[i].polygon}
                nonOverlapping ==
                    \A i, j \in 1..Len(f) :
                        i # j => (f[i].polygon \ f[i].boundary)
                                    \cap f[j].polygon = {}
            IN
            /\ hits = {} => currentCellId' = Null
            /\ \A i \in hits :
                    (\A j \in hits : i <= j) => currentCellId' = f[i].cell_id
            /\ nonOverlapping =>
                    \A i \in 1..Len(f) :
                        pt \in f[i].polygon \ f[i].boundary
                            => currentCellId' = f[i].cell_id]_vars

C24_Witness ==
    /\ Len(grid.features) = 2
    /\ grid.features[1].cell_id = "A"
    /\ grid.features[1].polygon = {"a1"}
    /\ grid.features[2].cell_id = "B"
    /\ grid.features[2].polygon = {"a1", "b1"}
    /\ grid.features[2].boundary = {"a1"}
    /\ grid.features[1].boundary = {"a1"}
    /\ currentCellId = "B"
    /\ \E t \in timers : t.id = dwellTimer /\ t.lat_lon = "b1"

C28_FailedFinishKeepsState ==
    [][\A r \in finishResps :
            (/\ ~r.ok
             /\ finishResps' = finishResps \ {r}
             /\ screen = "game-screen"
             /\ pauseModal)
            =>
            /\ screen' = "game-screen"
            /\ pauseModal'
            /\ ~pauseFinishBtnDisabled'
            /\ UNCHANGED <<visitedCells, watches, timers>>
            /\ cellStatus'.kind = "Error"]_vars

\* C29: a commit response only updates the session in which its request was
\* issued: when the response of a commit issued for one game arrives while
\* another game is the current one, it changes neither visitedCells nor the
\* displayed score.
C29_ResponseUpdatesOwnSessionOnly ==
    [][\A r \in visitResps, arrives \in BOOLEAN :
            (r.game # gameId /\ gameId # Null /\ VisitResponseOf(r, arrives))
            => UNCHANGED <<visitedCells, visitedCount, scorePct>>]_vars

\* C30: at most one geolocation watch is registered at any time, and it is
\* the one GPS.watchId names: once GPS.stop has run (GPS.watchId is null) no
\* watch is left that could deliver a sample to onPositionUpdate and arm a
\* timer.
C30_AtMostOneWatch ==
    /\ Cardinality(watches) <= 1
    /\ watchId = NoHandle => watches = {}
    /\ watchId # NoHandle => watches = {watchId}

----------------------------------------------------------------------------
\* The application under fair scheduling: the browser's clock advances and
\* a timeout that has fallen due runs its callback.

LiveSpec == Spec /\ WF_vars(Tick) /\ WF_vars(DwellTimerFires)

----------------------------------------------------------------------------
\* One stay in a cell: the player stands in cell B, which every grid has,
\* from before the game is loaded; games are loaded or created from the
\* lobby, and nobody pauses. No commit reaches the backend, so visitReqs
\* holds every commit sent.

\* every position sample is located in cell B
StaySample == PositionSampleAt("b1")

StayNext ==
    \/ onResumeGame
    \/ onChooseLocation
    \/ StartResponse
    \/ StaySample
    \/ PositionError
    \/ Tick
    \/ DwellTimerFires

StaySpec == Init /\ [][StayNext]_vars

----------------------------------------------------------------------------
\* The board editor (editor/editor-app.js, editor-map.js, editor-api.js):
\* the editor as constructed, on its own page; the game is not played.  The
\* backend handles a request when it is sent and the response travels back
\* for as long as it likes.  Every board has its cells generated; the status
\* line, the list of boards, generateCells and publishBoard hold no state
\* the handlers below read and are left out.

\* state of the game application, which the editor does not touch
gameVars == <<appVars, uiVars, hudVars, browserVars, wakeVars, startNetVars,
              visitNetVars, finishNetVars, serverVars>>

EditorRespIds == {r.id : r \in editorResps}

\* GET /editor/api/boards/{id}/: board detail with its cell counts
BoardDetail(b, id) ==
    [kind |-> "board", id |-> id, board |-> b,
     enabled_cells |-> EnabledCount(srvBoards[b]),
     total_cells |-> Cardinality(DOMAIN srvBoards[b])]

\* GET /editor/api/boards/{id}/cells/: the cells with is_enabled
BoardGeojson(b, id) ==
    [kind |-> "cells", id |-> id, board |-> b, is_enabled |-> srvBoards[b]]

\* PATCH /editor/api/boards/{id}/cells/toggle/: the listed cells of the
\* board get is_enabled; the updated counts are returned
ToggledCells(cells, cellIds, isEnabled) ==
    [c \in DOMAIN cells |-> IF c \in cellIds THEN isEnabled ELSE cells[c]]

\* EditorApp.selectBoard up to its await: a board of the list is clicked
selectBoard(b) ==
    /\ ~detailShown
    /\ nRequests < MaxEditorRequests
    /\ nRequests' = nRequests + 1
    /\ currentBoardId' = b
    /\ editorResps' = editorResps \cup {BoardDetail(b, FreshId(EditorRespIds))}
    /\ UNCHANGED <<detailShown, _geojson, _selectedCellIds, cellStats,
                   srvBoards, gameVars>>

\* EditorApp.updateCellStats
updateCellStats(enabled, total) == [enabled |-> enabled, total |-> total]

\* EditorApp.selectBoard after getBoard has answered, up to the await of
\* EditorApp.loadCells, which asks for the cells of the board that is
\* current by then
BoardResponse(r) ==
    /\ r \in editorResps
    /\ r.kind = "board"
    /\ \/ /\ cellStats' = updateCellStats(r.enabled_cells, r.total_cells)
          /\ detailShown' = TRUE
          /\ editorResps' =
                IF r.total_cells > 0 /\ currentBoardId # Null
                THEN (editorResps \ {r})
                     \cup {BoardGeojson(currentBoardId, r.id)}
                ELSE editorResps \ {r}
       \/ /\ editorResps' = editorResps \ {r}
          /\ UNCHANGED <<cellStats, detailShown>>
    /\ UNCHANGED <<currentBoardId, _geojson, _selectedCellIds, srvBoards,
                   gameVars, histVars>>

\* EditorApp.loadCells after getCells has answered: EditorMap.loadCells
CellsResponse(r) ==
    /\ r \in editorResps
    /\ r.kind = "cells"
    /\ editorResps' = editorResps \ {r}
    /\ \/ /\ _geojson' = [board |-> r.board, is_enabled |-> r.is_enabled]
          /\ _selectedCellIds' = {}
       \/ UNCHANGED <<_geojson, _selectedCellIds>>
    /\ UNCHANGED <<currentBoardId, detailShown, cellStats, srvBoards,
                   gameVars, histVars>>

\* EditorApp.showBoardList: the back button of the board detail
showBoardList ==
    /\ detailShown
    /\ currentBoardId' = Null
    /\ detailShown' = FALSE
    /\ UNCHANGED <<_geojson, _selectedCellIds, cellStats, editorResps,
                   srvBoards, gameVars, histVars>>

\* the click handler of the cell layer (EditorMap.init): a cell drawn on
\* the map is clicked, with or without the shift key
CellClicked(cellId, shiftKey) ==
    /\ cellId \in DOMAIN _geojson.is_enabled
    /\ _selectedCellIds' =
          IF shiftKey
          THEN IF cellId \in _selectedCellIds
               THEN _selectedCellIds \ {cellId}
               ELSE _selectedCellIds \cup {cellId}
          ELSE IF _selectedCellIds = {cellId} THEN {} ELSE {cellId}
    /\ UNCHANGED <<currentBoardId, detailShown, _geojson, cellStats,
                   editorResps, srvBoards, gameVars, histVars>>

\* the clear selection button and the Escape key: EditorMap.clearSelection
clearSelection ==
    /\ _selectedCellIds # {}
    /\ _selectedCellIds' = {}
    /\ UNCHANGED <<currentBoardId, detailShown, _geojson, cellStats,
                   editorResps, srvBoards, gameVars, histVars>>

\* EditorApp.toggleSelected up to its await; the request succeeds on the
\* backend or fails
toggleSelected(isEnabled) ==
    /\ _selectedCellIds # {}
    /\ currentBoardId # Null
    /\ nRequests < MaxEditorRequests
    /\ nRequests' = nRequests + 1
    /\ \E ok \in BOOLEAN :
          LET cells == IF ok THEN ToggledCells(srvBoards[currentBoardId],
                                               _selectedCellIds, isEnabled)
                       ELSE srvBoards[currentBoardId]
          IN /\ srvBoards' = [srvBoards EXCEPT ![currentBoardId] = cells]
             /\ editorResps' = editorResps \cup
                   {[kind |-> "toggle", id |-> FreshId(EditorRespIds),
                     ok |-> ok, board |-> currentBoardId,
                     cellIds |-> _selectedCellIds, isEnabled |-> isEnabled,
                     enabled_count |-> EnabledCount(cells),
                     total_count |-> Cardinality(DOMAIN cells)]}
    /\ UNCHANGED <<currentBoardId, detailShown, _geojson, _selectedCellIds,
                   cellStats, gameVars>>

\* EditorMap.updateCellStates
updateCellStates(geojson, cellIds, isEnabled) ==
    IF geojson.board = Null THEN geojson
    ELSE [geojson EXCEPT
            !.is_enabled = ToggledCells(geojson.is_enabled, cellIds, isEnabled)]

\* EditorApp.toggleSelected after toggleCells has answered
ToggleResponse(r) ==
    /\ r \in editorResps
    /\ r.kind = "toggle"
    /\ editorResps' = editorResps \ {r}
    /\ IF r.ok
       THEN /\ _geojson' = updateCellStates(_geojson, r.cellIds, r.isEnabled)
            /\ cellStats' = updateCellStats(r.enabled_count, r.total_count)
            /\ _selectedCellIds' = {}
       ELSE UNCHANGED <<_geojson, cellStats, _selectedCellIds>>
    /\ UNCHANGED <<currentBoardId, detailShown, srvBoards, gameVars,
                   histVars>>

EditorNext ==
    \/ \E b \in Boards : selectBoard(b)
    \/ \E r \in editorResps : BoardResponse(r)
    \/ \E r \in editorResps : CellsResponse(r)
    \/ showBoardList
    \/ \E c \in CellIds, shiftKey \in BOOLEAN : CellClicked(c, shiftKey)
    \/ clearSelection
    \/ \E isEnabled \in BOOLEAN : toggleSelected(isEnabled)
    \/ \E r \in editorResps : ToggleResponse(r)

EditorSpec == Init /\ [][EditorNext]_vars

----------------------------------------------------------------------------
\* Properties of the pending timer, of the commit, of the lobby and of the
\* countdown

\* C31: in every reachable state every pending dwell timer confirms the
\* tracked cell, and no dwell timer is pending while the tracked cell is none.
C31_PendingTimerIsForTrackedCell ==
    \A t \in timers : currentCellId # Null /\ t.cellId = currentCellId

\* C32: every commit request in flight carries a dwell (exited_at minus
\* entered_at) of at least the min_dwell_s of the game it is sent to, and a
\* cell of that game, so that the backend does not reject it.
C32_CommitMeetsMinDwell ==
    \A req \in visitReqs :
        /\ req.exited_at - req.entered_at >= MinDwellOf(req.game)
        /\ req.cell_id \in CellsOf(req.game)

\* C33: during one stay in a cell, once the dwell timer of the cell has
\* fired and sent its commit, no sample located in the cell arms a timer
\* again and no second commit is sent.
C33_OneCommitPerStay ==
    /\ visitReqs # {} => timers = {}
    /\ Cardinality(visitReqs) <= 1

C35_BackToLobbyResets ==
    [][(onBackToLobby \/ NewGameClicked) =>
            /\ watches' = {}
            /\ timers' = {}
            /\ intervals' = {}
            /\ gameId' = Null
            /\ grid' = NullGrid
            /\ visitedCells' = EmptyMap
            /\ currentCellId' = Null
            /\ dwellTimer' = NoHandle
            /\ countdownInterval' = NoHandle
            /\ minDwellS' = DefaultMinDwellS
            /\ screen' = "lobby-screen"
            /\ UNCHANGED <<startNetVars, visitNetVars, finishNetVars,
                           serverVars, nRequests>>]_vars

\* C36: at most one wake lock sentinel is unreleased at any time, and it is
\* the one App._wakeLock holds: once _releaseWakeLock has run (_wakeLock is
\* null) no sentinel granted to the application is left unreleased.
C36_AtMostOneWakeLock ==
    /\ Cardinality(sentinels) <= 1
    /\ _wakeLock = NoHandle => sentinels = {}
    /\ _wakeLock # NoHandle => sentinels = {_wakeLock}

\* C37: the result of a toggleSelected request is applied only to the board
\* and the cells it was issued for.  When the request has succeeded, the
\* cells on the map are changed only if they are those of the board of the
\* request, exactly the cells selected when the request was made then take
\* the new enabled state, and the counts shown become those the backend
\* returned for that board; when it has failed, the enabled states and the
\* selection stay as they are.
C37_ToggleResultAppliedToOwnBoard ==
    [][\A r \in editorResps :
          ToggleResponse(r) =>
             IF r.ok
             THEN /\ _geojson.board # r.board => _geojson' = _geojson
                  /\ _geojson.board = r.board =>
                        _geojson'.is_enabled =
                           ToggledCells(_geojson.is_enabled, r.cellIds,
                                        r.isEnabled)
                  /\ cellStats' = [enabled |-> r.enabled_count,
                                   total |-> r.total_count]
             ELSE UNCHANGED <<_geojson, _selectedCellIds>>]_vars

\* C38: at most one countdown interval is active, and one is active only
\* while a dwell timer is pending for the tracked cell, which is then a
\* cell of the grid that has not been visited; an interval whose count has
\* reached zero is no longer active.
C38_CountdownOnlyWhileDwelling ==
    /\ Cardinality(intervals) <= 1
    /\ \A i \in intervals :
          /\ i.remaining > 0
          /\ currentCellId # Null
          /\ currentCellId \notin DOMAIN visitedCells
          /\ \E t \in timers : t.cellId = currentCellId

====
